---- MODULE Spec2Model ----
(***************************************************************************)
(* Model of object_detection_YOLOv5.ipynb: the model-loading cell, the     *)
(* single-image processor process_image and the batch driver               *)
(* batch_process_directory, over a small file system.                      *)
(*                                                                         *)
(* A file name is a sequence of one-character strings, a path a sequence   *)
(* of components (directories, then the file name).  A confidence is an    *)
(* integer number of 1/ConfDen-ths (a binary fraction, as a float is).     *)
(* A pixel array is the triple of its channel planes in array order:       *)
(* cv2.imread yields storage order (B,G,R) and cv2.imwrite stores the      *)
(* array it is given position by position.                                 *)
(*                                                                         *)
(* A session is the model-loading cell followed by one run of a            *)
(* process_image cell or of a batch_process_directory cell.  The two       *)
(* operations keep nothing from one call to the next but the files, and    *)
(* Init ranges over the file systems a call may find.  log is what the     *)
(* cell being run has printed and called so far, in order.                 *)
(***************************************************************************)
EXTENDS Integers, Sequences, FiniteSets, TLC

VARIABLES fs, weights, model, pc, op, listing, image_files, idx, log, outcome

vars == <<fs, weights, model, pc, op, listing, image_files, idx, log, outcome>>

(* ------------------------------ bounds -------------------------------- *)

\* at most this many entries lie in the populated directory initially
MaxFiles == 3

\* confidences are multiples of 1/ConfDen
ConfDen == 128

(* ---------------------------- file names ------------------------------ *)

NameA == <<"a", ".", "J", "P", "G">>
NameB == <<"b", ".", "p", "n", "g">>
NameC == <<"c", ".", "t", "x", "t">>
NameD == <<"d", ".", "J", "p", "e", "g">>

FileNames == {NameA, NameB, NameC, NameD}

OUTPUT == "output"
IMAGES == "images"

\* the directories the first cell creates and files are kept in;
\* <<>> is the working directory itself
Dirs == {<<>>, <<IMAGES>>, <<OUTPUT>>}

Paths == {d \o <<n>> : d \in Dirs, n \in FileNames}

(* ------------------------- str.lower / endswith ----------------------- *)

lowerChar(c) ==
    CASE c = "J" -> "j"
      [] c = "P" -> "p"
      [] c = "G" -> "g"
      [] c = "E" -> "e"
      [] c = "N" -> "n"
      [] c = "B" -> "b"
      [] c = "M" -> "m"
      [] OTHER -> c

lower(s) == [i \in 1..Len(s) |-> lowerChar(s[i])]

endswithOne(s, suffix) ==
    /\ Len(s) >= Len(suffix)
    /\ SubSeq(s, Len(s) - Len(suffix) + 1, Len(s)) = suffix

endswith(s, suffixes) == \E i \in 1..Len(suffixes) : endswithOne(s, suffixes[i])

image_extensions ==
    << <<".", "j", "p", "g">>, <<".", "j", "p", "e", "g">>,
       <<".", "p", "n", "g">>, <<".", "b", "m", "p">> >>

\* the filter without .lower()
IsImageFile_cased(f) == endswith(f, image_extensions)

IsImageFile(f) == endswith(lower(f), image_extensions)

\* [f for f in os.listdir(directory) if f.lower().endswith(image_extensions)]
SelectImages(names) == SelectSeq(names, IsImageFile)

(* ------------------------------ os.path ------------------------------- *)

\* every result saved under one fixed name
basename_fixed(p) == NameA

basename(p) == IF p = <<>> THEN <<>> ELSE p[Len(p)]

join(dir, name) == dir \o <<name>>

(* ----------------------------- file system ---------------------------- *)

\* kind: "none" no entry; "dangling" an entry os.listdir lists and
\* os.path.exists denies (a broken link); "junk" an entry that exists and
\* cv2.imread cannot decode (corrupt or non-image data, a directory);
\* "img" a readable image with channel planes px in storage order, ann
\* telling whether boxes are burned into it.
NoFile == [kind |-> "none", px |-> <<0, 0, 0>>, ann |-> FALSE]
Dangling == [kind |-> "dangling", px |-> <<0, 0, 0>>, ann |-> FALSE]
Junk == [kind |-> "junk", px |-> <<0, 0, 0>>, ann |-> FALSE]
ImgFile(px, ann) == [kind |-> "img", px |-> px, ann |-> ann]

\* a photograph as the user places it: distinct B, G and R planes
Photo == ImgFile(<<1, 2, 3>>, FALSE)

\* os.path.lexists in place of os.path.exists: true of a broken link
exists_lexists(f, p) == p \in DOMAIN f /\ f[p].kind # "none"

exists(f, p) == p \in DOMAIN f /\ f[p].kind \in {"junk", "img"}

\* the names os.listdir(directory) returns, as a set
Entries(f, dir) == {n \in FileNames : f[join(dir, n)].kind # "none"}

RECURSIVE Orders(_)
\* every order in which os.listdir may return the entries
Orders(S) ==
    IF S = {} THEN {<<>>}
    ELSE UNION {{<<x>> \o t : t \in Orders(S \ {x})} : x \in S}

(* -------------------------------- cv2 --------------------------------- *)

NoImg == [px |-> <<0, 0, 0>>, ann |-> FALSE]

\* cv2.imread: the pixel array of a readable image, None otherwise
imread(f, p) ==
    IF f[p].kind = "img"
    THEN [none |-> FALSE, px |-> f[p].px, ann |-> f[p].ann]
    ELSE [none |-> TRUE, px |-> <<0, 0, 0>>, ann |-> FALSE]

\* cv2.cvtColor with COLOR_BGR2RGB or COLOR_RGB2BGR: both exchange the first
\* and the third channel plane
cvtColor(px) == <<px[3], px[2], px[1]>>

\* cv2.imwrite picks the encoder by the extension of the file name, letter
\* case disregarded, and raises when it knows none for it; of the names here
\* it knows those ending in .jpg, .jpeg, .png and .bmp
hasEncoder(name) ==
    endswith(lower(name),
             << <<".", "j", "p", "g">>, <<".", "j", "p", "e", "g">>,
                <<".", "p", "n", "g">>, <<".", "b", "m", "p">> >>)

(* ------------------------ detection capability ------------------------ *)

\* model.names, the class-index-to-label lookup
names(cls) ==
    CASE cls = 0 -> "person"
      [] cls = 15 -> "cat"
      [] cls = 16 -> "dog"
      [] OTHER -> "unknown"

Box(cls, conf) == [cls |-> cls, conf |-> conf]

\* what the detector may see in an image: candidate boxes with their scores
Scenes ==
    { <<>>,
      <<Box(16, 111), Box(15, 48)>>,
      <<Box(0, 80)>> }

\* the thresholds a call is made with; 32/128 is the default 0.25
Thresholds == {32, 64}

AtLeast(thr, boxes) ==
    LET Keep(b) == b.conf >= thr IN SelectSeq(boxes, Keep)

\* results = model(image, conf=conf_threshold): one result set for the one
\* image, holding the image as given and the boxes scoring conf or more
Detect(image, thr, scene) ==
    << [orig_img |-> image, boxes |-> AtLeast(thr, scene)] >>

\* results[0].plot(): the boxes drawn onto a copy of the image as given, in
\* the channel order it was given in
plot(r) ==
    [px |-> r.orig_img.px, ann |-> r.orig_img.ann \/ r.boxes # <<>>]

(* --------------------------- f"{conf:.2f}" ---------------------------- *)

Digits == <<"0", "1", "2", "3", "4", "5", "6", "7", "8", "9">>

\* the hundredths cut off instead of rounded
Hundredths_truncated(conf) == (100 * conf) \div ConfDen

\* conf/ConfDen rounded to the nearest hundredth, ties to even
Hundredths(conf) ==
    LET q == (100 * conf) \div ConfDen
        r == (100 * conf) % ConfDen
    IN  IF 2 * r < ConfDen THEN q
        ELSE IF 2 * r > ConfDen THEN q + 1
        ELSE IF q % 2 = 0 THEN q ELSE q + 1

\* the text of a number of hundredths below 10.00
Fmt2(conf) ==
    LET h == Hundredths(conf)
    IN  <<Digits[(h \div 100) + 1], ".",
          Digits[((h \div 10) % 10) + 1], Digits[(h % 10) + 1]>>

(* ------------------------------- events ------------------------------- *)

\* what a run is observed to do, in order: the messages printed, the calls
\* made to cv2, matplotlib and the detector, and the entry to and exit from
\* process_image
Ev(ev, path, num, img, label, text, boxes) ==
    [ev |-> ev, path |-> path, num |-> num, img |-> img,
     label |-> label, text |-> text, boxes |-> boxes]

E0(ev) == Ev(ev, <<>>, 0, NoImg, "", <<>>, <<>>)
EP(ev, path) == Ev(ev, path, 0, NoImg, "", <<>>, <<>>)
EI(ev, path, img) == Ev(ev, path, 0, img, "", <<>>, <<>>)
EIL(ev, path, img, label) == Ev(ev, path, 0, img, label, <<>>, <<>>)

\* for box in r.boxes: print(f"{class_name}: {conf:.2f}")
BoxLines(boxes) ==
    [i \in 1..Len(boxes) |->
        Ev("print_line", <<>>, 0, NoImg,
           names(boxes[i].cls), Fmt2(boxes[i].conf), <<>>)]

RECURSIVE ReportLines(_)
\* for r in results: for box in r.boxes: ...
ReportLines(results) ==
    IF results = <<>> THEN <<>>
    ELSE BoxLines(Head(results).boxes) \o ReportLines(Tail(results))

(* ---------------------------- process_image --------------------------- *)

\* what the environment does to one call: nothing, the detector raising,
\* cv2.imwrite returning False without writing, cv2.imwrite raising for
\* another reason than the file name
Faults == {"none", "detect_raises", "write_false", "write_raises"}

Raised(f, out) == [fs |-> f, out |-> out \o <<E0("raise")>>, raised |-> TRUE]
Returned(f, out) == [fs |-> f, out |-> out \o <<E0("return")>>, raised |-> FALSE]

\* the result saved over the input
output_path_inplace(image_path) == image_path

output_path(image_path) == join(<<OUTPUT>>, basename(image_path))

\* the array handed to cv2.imwrite
SavedPixels(result_plot) == cvtColor(result_plot.px)

\* from the display on: result_plot is results[0].plot(), not yet converted
ShowAndSave(image_path, f, image, results, fault, out0) ==
    LET plotted == plot(results[1])
        result_plot == [px |-> cvtColor(plotted.px), ann |-> plotted.ann]
        shown == out0 \o
                 << EI("imshow", <<>>, image), EI("imshow", <<>>, result_plot),
                    E0("show"), E0("print_detections") >>
                 \o ReportLines(results)
        saved == [px |-> SavedPixels(result_plot), ann |-> result_plot.ann]
        target == output_path(image_path)
        written(ret) == shown \o <<EIL("imwrite", target, saved, ret)>>
    IN  IF fault = "write_raises" \/ ~hasEncoder(basename(target))
        THEN Raised(f, written("raise"))
        ELSE IF fault = "write_false"
        THEN Returned(f, written("False") \o <<EP("print_saved", target)>>)
        ELSE Returned([f EXCEPT ![target] = ImgFile(saved.px, saved.ann)],
                      written("True") \o <<EP("print_saved", target)>>)

\* process_image(image_path, conf_threshold) run to its end on file system f
\* with the model handle in state mdl: the file system it leaves, what it
\* did, and whether it ended in an uncaught exception
process_image(image_path, conf_threshold, f, mdl, scene, fault) ==
    LET entry == <<Ev("process_image", image_path, conf_threshold,
                      NoImg, "", <<>>, <<>>)>>
    IN  IF ~exists(f, image_path)
        THEN Returned(f, entry \o <<EP("print_not_found", image_path)>>)
        ELSE
          LET raw == imread(f, image_path)
              read == entry \o
                      <<EIL("imread", image_path, [px |-> raw.px, ann |-> raw.ann],
                            IF raw.none THEN "None" ELSE "array")>>
          IN  IF raw.none THEN Raised(f, read)
              ELSE
                LET image == [px |-> cvtColor(raw.px), ann |-> raw.ann]
                    results == Detect(image, conf_threshold, scene)
                    called == read \o
                              <<Ev("detect", image_path, conf_threshold, image,
                                   "", <<>>, results[1].boxes)>>
                IN  IF mdl # "loaded" THEN Raised(f, read)
                    ELSE IF fault = "detect_raises"
                    THEN Raised(f, read \o
                                   <<Ev("detect", image_path, conf_threshold,
                                        image, "", <<>>, <<>>)>>)
                    ELSE ShowAndSave(image_path, f, image, results, fault, called)

(* ------------------------------- state -------------------------------- *)

WEIGHTS_PATH == <<"weights", <<"y", "o", "l", "o", "v", "5", "s", ".", "p", "t">> >>

NoOp == [kind |-> "none", path |-> <<>>, thr |-> 0]

\* the directories a batch run is given
BatchDirs == {<<>>, <<IMAGES>>, <<OUTPUT>>}

\* the directories files may lie in when the session starts
InputDirs == {<<>>, <<IMAGES>>, <<OUTPUT>>}

\* the file system holding the files c (name -> content) in directory d
Populated(d, c) ==
    [p \in Paths |->
        IF SubSeq(p, 1, Len(p) - 1) = d /\ basename(p) \in DOMAIN c
        THEN c[basename(p)] ELSE NoFile]

\* the notebook as the first cell leaves it: weights present or not, at most
\* MaxFiles entries in one directory, the other directories empty
Init ==
    /\ weights \in BOOLEAN
    /\ \E d \in InputDirs, S \in SUBSET FileNames :
         /\ Cardinality(S) <= MaxFiles
         /\ \E c \in [S -> {Dangling, Junk, Photo}] : fs = Populated(d, c)
    /\ model = "unset"
    /\ pc = "cell2"
    /\ op = NoOp
    /\ listing = <<>>
    /\ image_files = <<>>
    /\ idx = 0
    /\ log = <<>>
    /\ outcome = "none"

(* ------------------------- the model-loading cell --------------------- *)

\* the cell's check of WEIGHTS_PATH and its YOLO(WEIGHTS_PATH), which follows
\* the if/else whatever the check found.  With the file missing the
\* constructor either fetches the weights or raises.
LoadModel ==
    /\ pc = "cell2"
    /\ \E fetched \in BOOLEAN :
         LET checked == IF ~weights
                        THEN <<EP("print_weights_not_found", WEIGHTS_PATH)>>
                        ELSE <<EP("print_weights_found", WEIGHTS_PATH)>>
             built == checked \o <<EP("YOLO", WEIGHTS_PATH)>>
         IN  IF weights \/ fetched
             THEN /\ model' = "loaded"
                  /\ weights' = TRUE
                  /\ log' = built \o <<E0("print_device")>>
                  /\ outcome' = "returned"
             ELSE /\ model' = "failed"
                  /\ weights' = weights
                  /\ log' = built \o <<E0("raise")>>
                  /\ outcome' = "raised"
    /\ pc' = "idle"
    /\ op' = [kind |-> "load", path |-> WEIGHTS_PATH, thr |-> 0]
    /\ UNCHANGED <<fs, listing, image_files, idx>>

(* ------------------------- a process_image cell ----------------------- *)

CallProcessImage ==
    /\ pc = "idle"
    /\ \E image_path \in Paths, thr \in Thresholds, scene \in Scenes, fault \in Faults :
         LET r == process_image(image_path, thr, fs, model, scene, fault)
         IN  /\ fs' = r.fs
             /\ log' = r.out
             /\ outcome' = IF r.raised THEN "raised" ELSE "returned"
             /\ op' = [kind |-> "single", path |-> image_path, thr |-> thr]
    /\ pc' = "done"
    /\ UNCHANGED <<weights, model, listing, image_files, idx>>

(* ----------------------- batch_process_directory ---------------------- *)

\* the loop entered without the emptiness check
NoImages_unchecked(files) == FALSE

\* if not image_files
NoImages(files) == files = <<>>

\* the list walked from its end
LoopEntry_reversed(files, i) == files[Len(files) - i + 1]

\* for image_file in image_files: the entry of the i-th turn
LoopEntry(files, i) == files[i]

\* the call wrapped in a try/except that swallows the exception
AfterTurn_swallowing(raised, i, n) ==
    IF i = n THEN "done" ELSE "batch"

\* where control is after the i-th of n turns: an exception process_image
\* raises is caught nowhere and ends the run
AfterTurn(raised, i, n) ==
    IF raised \/ i = n THEN "done" ELSE "batch"

\* the listing, the filter, and the report of what was found
BatchStart ==
    /\ pc = "idle"
    /\ \E directory \in BatchDirs, thr \in Thresholds :
       \E order \in Orders(Entries(fs, directory)) :
         LET files == SelectImages(order)
         IN  /\ listing' = order
             /\ image_files' = files
             /\ op' = [kind |-> "batch", path |-> directory, thr |-> thr]
             /\ IF NoImages(files)
                THEN /\ log' = <<EP("print_no_images", directory)>>
                     /\ pc' = "done"
                     /\ idx' = 0
                     /\ outcome' = "returned"
                ELSE /\ log' = <<Ev("print_found", <<>>, Len(files), NoImg,
                                    "", <<>>, <<>>)>>
                     /\ pc' = "batch"
                     /\ idx' = 1
                     /\ outcome' = "none"
    /\ UNCHANGED <<fs, weights, model>>

\* one turn of the loop over image_files
BatchIter ==
    /\ pc = "batch"
    /\ idx <= Len(image_files)
    /\ \E scene \in Scenes, fault \in Faults :
         LET image_file == LoopEntry(image_files, idx)
             image_path == join(op.path, image_file)
             r == process_image(image_path, op.thr, fs, model, scene, fault)
         IN  /\ fs' = r.fs
             /\ log' = log \o <<EP("print_processing", <<image_file>>)>> \o r.out
             /\ pc' = AfterTurn(r.raised, idx, Len(image_files))
             /\ idx' = IF r.raised THEN idx ELSE idx + 1
             /\ outcome' = IF r.raised THEN "raised"
                           ELSE IF idx = Len(image_files) THEN "returned"
                           ELSE "none"
    /\ UNCHANGED <<weights, model, op, listing, image_files>>

Next == LoadModel \/ CallProcessImage \/ BatchStart \/ BatchIter

Spec == Init /\ [][Next]_vars

(* ------------------------- reading the log ---------------------------- *)

At(l, e) == {i \in 1..Len(l) : l[i].ev = e}

IsCallEvent(x) == x.ev = "process_image"
IsEndEvent(x) == x.ev \in {"return", "raise"}
IsReportEvent(x) == x.ev = "print_processing"

RECURSIVE LastAt(_, _, _)
\* the last position up to i of an event e, 0 if there is none
LastAt(l, e, i) ==
    IF i = 0 THEN 0 ELSE IF l[i].ev = e THEN i ELSE LastAt(l, e, i - 1)

\* where the most recent process_image call begins
LastCall(l) == LastAt(l, "process_image", Len(l))

\* the events of the most recent process_image call, if there is one; a call
\* runs to its end within one step, so they are the rest of the log
Call(l) == IF LastCall(l) = 0 THEN <<>> ELSE SubSeq(l, LastCall(l), Len(l))

\* a step in which process_image is called
IsCallStep ==
    \/ pc = "idle" /\ op'.kind = "single"
    \/ pc = "batch" /\ log' # log

\* no file system entry at all, or one that resolves to nothing
Missing(f, p) == f[p].kind \in {"none", "dangling"}

\* the call c ended normally with the annotated image written
Succeeded(c) ==
    /\ c # <<>>
    /\ c[Len(c)].ev = "return"
    /\ \E j \in At(c, "imwrite") : c[j].label = "True"

(* ------------------------------- claims ------------------------------- *)

\* C1: a process_image call (a cell's own or one the batch driver makes) whose
\* image_path references nothing prints the not-found message and returns:
\* the call consists of that message alone, with no imread, no detector call,
\* no imshow/show and no imwrite, and the file system is left as it was.
C1_MissingImageOnlyReported ==
    [][ IsCallStep
        => LET c == Call(log')
           IN  Missing(fs, c[1].path)
               => /\ Len(c) = 3
                  /\ c[2].ev = "print_not_found"
                  /\ c[2].path = c[1].path
                  /\ c[3].ev = "return"
                  /\ fs' = fs ]_vars

\* a call on a missing path has been made and has returned
C1_Witness ==
    /\ pc = "done"
    /\ op.kind = "single"
    /\ Missing(fs, op.path)
    /\ At(log, "print_not_found") # {}

(* C2 *)

\* upper- and lower-case forms of one letter
CasePairs ==
    { <<"J", "j">>, <<"P", "p">>, <<"G", "g">>, <<"E", "e">>,
      <<"N", "n">>, <<"B", "b">>, <<"M", "m">> }

SameLetter(a, b) == a = b \/ <<a, b>> \in CasePairs \/ <<b, a>> \in CasePairs

ExtensionWords ==
    { <<"j", "p", "g">>, <<"j", "p", "e", "g">>, <<"p", "n", "g">>, <<"b", "m", "p">> }

\* the name ends in a dot followed by one of the extension words, letter case
\* disregarded
EndsInImageExtension(n) ==
    \E w \in ExtensionWords :
       /\ Len(n) >= Len(w) + 1
       /\ n[Len(n) - Len(w)] = "."
       /\ \A k \in 1..Len(w) : SameLetter(n[Len(n) - Len(w) + k], w[k])

\* further names the filter is tried on
ProbeNames ==
    { <<"x", ".", "b", "m", "p">>, <<"x", ".", "B", "M", "P">>,
      <<".", "p", "n", "g">>, <<"p", "n", "g">>, <<"j", "p", "e", "g">>,
      <<"x", ".", "j", "p", "g", ".", "t", "x", "t">>,
      <<"x", ".", "j", "p", "e">>, <<"x", ".", "p", "n", "g", "x">>,
      <<"x", ".", "J", "P", "E", "G">>, <<"x", "j", "p", "g">>,
      <<"x", ".", "t", "x", "t", ".", "P", "n", "G">>, <<>> }

\* C2: the files a batch run selects are exactly the entries of its listing,
\* in listing order, whose names end, case disregarded, in .jpg, .jpeg, .png
\* or .bmp; every other entry is skipped.  The filter decides the same on the
\* probe names.
C2_SelectsImageExtensions ==
    /\ op.kind = "batch" => image_files = SelectSeq(listing, EndsInImageExtension)
    /\ pc = "cell2" => \A n \in ProbeNames : IsImageFile(n) <=> EndsInImageExtension(n)

\* a listing of a.JPG, b.png and c.txt, of which a.JPG and b.png are selected
C2_Witness ==
    /\ op.kind = "batch"
    /\ listing = <<NameA, NameB, NameC>>
    /\ image_files = <<NameA, NameB>>

(* C3, C4 *)

InBatch == op.kind = "batch" /\ image_files # <<>>

\* C3 as claimed: when a batch run is over, process_image has been attempted
\* on every selected entry, whatever happened to the entries before it
\* (stated here for runs with the model loaded).
C3_EveryEntryAttempted ==
    (InBatch /\ pc = "done" /\ model = "loaded")
    => \A k \in 1..Len(image_files) :
          \E i \in At(log, "process_image") :
             log[i].path = join(op.path, image_files[k])

\* C3 as amended: when a batch run is over, the entries attempted are the
\* first k of the selected entries, in order, for some k >= 1; every attempt
\* but the last returned; an attempt that returned (a missing file, an imwrite
\* returning False, a success) is followed by the next entry's, so if the last
\* one returned then k is the number of selected entries; an attempt that
\* raised is the last one and the run ended raising.
C3_AttemptedUpToFirstRaise ==
    (InBatch /\ pc = "done")
    => LET calls == SelectSeq(log, IsCallEvent)
           ends == SelectSeq(log, IsEndEvent)
           k == Len(calls)
       IN  /\ k \in 1..Len(image_files)
           /\ Len(ends) = k
           /\ \A j \in 1..k :
                 /\ calls[j].path = join(op.path, image_files[j])
                 /\ j < k => ends[j].ev = "return"
           /\ \A i \in At(log, "print_not_found") : log[i + 1].ev = "return"
           /\ ends[k].ev = "return" => k = Len(image_files)
           /\ ends[k].ev = "raise" <=> outcome = "raised"
           /\ ends[k].ev = "return" <=> outcome = "returned"

\* a run of three selected entries: the first is missing and the second is
\* attempted all the same and raises, so the third is never attempted
C3_Witness ==
    /\ InBatch /\ pc = "done"
    /\ Len(image_files) = 3
    /\ Len(SelectSeq(log, IsCallEvent)) = 2
    /\ log[4].ev = "print_not_found"
    /\ log[Len(log)].ev = "raise"

\* C4 as claimed: when a batch run with a selected entry is over, every
\* selected entry has been handled exactly once, in listing order: reported,
\* then processed with the run's threshold, one ended before the next begins
\* (stated here for runs with the model loaded).
C4_EveryEntryInOrder ==
    (InBatch /\ pc = "done" /\ model = "loaded")
    => LET reports == SelectSeq(log, IsReportEvent)
           calls == SelectSeq(log, IsCallEvent)
       IN  /\ Len(reports) = Len(image_files)
           /\ Len(calls) = Len(image_files)
           /\ \A j \in 1..Len(image_files) :
                 /\ reports[j].path = <<image_files[j]>>
                 /\ calls[j].path = join(op.path, image_files[j])
                 /\ calls[j].num = op.thr

\* C4 as amended: at every point of a batch run with a selected entry, the
\* entries handled are the first k selected entries for some k, each once and
\* in listing order: reported, then at once processed by process_image on
\* the entry's path with the run's threshold, that call ended before the next
\* entry is reported.  k is the number of turns taken; a run that returned
\* handled every selected entry, a run that raised handled the entries up to
\* and including the one whose processing raised.
C4_EntriesInOrderUpToRaise ==
    InBatch
    => LET reports == SelectSeq(log, IsReportEvent)
           calls == SelectSeq(log, IsCallEvent)
           ends == SelectSeq(log, IsEndEvent)
           k == Len(reports)
       IN  /\ log[1].ev = "print_found" /\ log[1].num = Len(image_files)
           /\ Len(calls) = k /\ Len(ends) = k
           /\ k = (IF outcome = "raised" THEN idx ELSE idx - 1)
           /\ k <= Len(image_files)
           /\ outcome = "returned" => k = Len(image_files)
           /\ (pc = "done" /\ k < Len(image_files)) => ends[k].ev = "raise"
           /\ \A j \in 1..k :
                 /\ reports[j].path = <<image_files[j]>>
                 /\ calls[j].path = join(op.path, image_files[j])
                 /\ calls[j].num = op.thr
           /\ \A r \in At(log, "print_processing") :
                 /\ log[r + 1].ev = "process_image"
                 /\ log[r - 1].ev \in {"print_found", "return"}
           /\ \A c \in At(log, "process_image") : log[c - 1].ev = "print_processing"
           /\ k > 0 => IsEndEvent(log[Len(log)])

\* a run over three selected entries in an order other than a.JPG, b.png,
\* d.Jpeg that returned having handled all three
C4_Witness ==
    /\ InBatch /\ pc = "done" /\ outcome = "returned"
    /\ image_files = <<NameD, NameA, NameB>>
    /\ Len(SelectSeq(log, IsCallEvent)) = 3
    /\ op.thr = 64

\* C5: a batch run over a directory with no entry, or with none ending in an
\* image extension, prints that no images were found and is over: no
\* process_image call, no detector call, no display, no write, and the file
\* system is left as it was.
C5_NoImagesNoProcessing ==
    [][ (pc = "idle" /\ op'.kind = "batch"
         /\ \A n \in Entries(fs, op'.path) : ~EndsInImageExtension(n))
        => /\ pc' = "done"
           /\ outcome' = "returned"
           /\ Len(log') = 1
           /\ log'[1].ev = "print_no_images"
           /\ log'[1].path = op'.path
           /\ fs' = fs ]_vars

\* a batch run over a directory that has entries, none of them an image
C5_Witness ==
    /\ pc = "done"
    /\ op.kind = "batch"
    /\ listing # <<>>
    /\ At(log, "print_no_images") # {}

(* C6 *)

\* C6 as claimed: when the model-loading cell finds the weights file missing
\* it reports that and does not go on to construct the model from that path.
C6_MissingWeightsNotLoaded ==
    At(log, "print_weights_not_found") # {} => At(log, "YOLO") = {}

(* C7 *)

InOutputDir(q) == Len(q) = 2 /\ q[1] = OUTPUT

\* C7: a process_image call that ended normally with the annotated image
\* written made exactly one imwrite, to the path made of the output directory
\* and the last component of the input path, and the file there holds the
\* array that was handed to imwrite.  (Every call is the most recent one in
\* the state its step leads to.)
C7_WrittenUnderOutputBasename ==
    LET c == Call(log)
    IN  Succeeded(c)
        => LET W == At(c, "imwrite")
               q == c[1].path
           IN  /\ Cardinality(W) = 1
               /\ \A w \in W :
                     /\ c[w].path = <<OUTPUT, q[Len(q)]>>
                     /\ fs[c[w].path] = ImgFile(c[w].img.px, c[w].img.ann)

\* images/a.JPG has been processed and output/a.JPG holds the result
C7_Witness ==
    /\ pc = "done"
    /\ op.kind = "single"
    /\ op.path = <<IMAGES, NameA>>
    /\ Succeeded(Call(log))
    /\ fs[<<OUTPUT, NameA>>].kind = "img"
    /\ fs[<<OUTPUT, NameA>>].ann

(* C8 *)

DigitValue(c) == CHOOSE k \in 0..9 : Digits[k + 1] = c

IsDigit(c) == \E k \in 1..10 : Digits[k] = c

\* t reads d.dd, and d.dd is a hundredth nearest to conf/ConfDen
TwoDecimalsOf(t, conf) ==
    /\ Len(t) = 4
    /\ IsDigit(t[1]) /\ t[2] = "." /\ IsDigit(t[3]) /\ IsDigit(t[4])
    /\ LET h == 100 * DigitValue(t[1]) + 10 * DigitValue(t[3]) + DigitValue(t[4])
           d == h * ConfDen - 100 * conf
       IN  2 * d <= ConfDen /\ -2 * d <= ConfDen

\* C8: in a process_image call that got a result from the detector, the
\* report is the header followed by exactly one line per box of the result,
\* in the result's order, each with the label the lookup gives the box's
\* class and the box's confidence to two decimals; after the lines the call
\* goes on to imwrite, also when the result has no box and the report is
\* empty.  (Every call is the most recent one in the state its step leads to.)
C8_OneLinePerDetection ==
    LET c == Call(log)
    IN  \A h \in At(c, "print_detections") :
           \A d \in At(c, "detect") :
              LET B == c[d].boxes
              IN  /\ Cardinality(At(c, "print_line")) = Len(B)
                  /\ \A k \in 1..Len(B) :
                        /\ c[h + k].ev = "print_line"
                        /\ c[h + k].label = names(B[k].cls)
                        /\ TwoDecimalsOf(c[h + k].text, B[k].conf)
                  /\ c[h + Len(B) + 1].ev = "imwrite"

\* an earlier call of the run has printed "dog: 0.87"; the most recent one got
\* no box, printed no line and wrote its image
C8_Witness ==
    /\ \E j \in At(log, "print_line") :
          log[j].label = "dog" /\ log[j].text = <<"0", ".", "8", "7">>
    /\ LET c == Call(log)
       IN  /\ Succeeded(c)
           /\ At(c, "print_line") = {}
           /\ \E d \in At(c, "detect") : c[d].boxes = <<>>

(* C9 *)

\* C9 as claimed: the array handed to the detector and the first array
\* displayed are the loaded array with its colour order converted, and the
\* array handed to an imwrite that writes it has the channel order of the
\* array imread loaded.
C9_ChannelOrderRestored ==
    LET c == Call(log)
    IN  \A r \in At(c, "imread") :
           /\ \A d \in At(c, "detect") : c[d].img.px = cvtColor(c[r].img.px)
           /\ \A w \in At(c, "imwrite") :
                 c[w].label = "True" => c[w].img.px = c[r].img.px

(* C10 *)

\* no two imwrite calls of the run name the same file
DistinctOutputs ==
    \A v, w \in At(log, "imwrite") : v # w => log[v].path # log[w].path

\* C10: a step changes a file only if it is a process_image call and the file
\* is the one in the output directory named by the last component of the
\* call's input path; the input file itself keeps its content unless it lies
\* in the output directory; and in a batch run over another directory than
\* the output directory no two turns write the same file.
C10_OnlyOutputFilesChange ==
    [][ /\ fs' # fs => IsCallStep
        /\ IsCallStep
           => LET q == Call(log')[1].path
              IN  /\ \A p \in Paths : fs'[p] # fs[p] => p = <<OUTPUT, q[Len(q)]>>
                  /\ InOutputDir(q) \/ fs'[q] = fs[q]
        /\ (op'.kind = "batch" /\ op'.path # <<OUTPUT>>) => DistinctOutputs' ]_vars

\* a batch run over images/ has written the results of two entries
C10_Witness ==
    /\ pc = "done"
    /\ op.kind = "batch"
    /\ op.path = <<IMAGES>>
    /\ Cardinality({w \in At(log, "imwrite") : log[w].label = "True"}) >= 2
    /\ \E n \in FileNames :
          fs[<<IMAGES, n>>] = Photo /\ fs[<<OUTPUT, n>>].kind = "img"

====
